---- MODULE Spec2Model ----
(***************************************************************************)
(* A model of tably (src/tably.py): the conversion of delimited tabular    *)
(* sources into LaTeX tables.                                              *)
(*                                                                         *)
(* Text is a sequence of pieces.  A piece is either one character of user  *)
(* data (a cell, a unit, a label, an alignment letter) or one literal of   *)
(* tably's own markup ("\\midrule", " & ", the four-space indent, ...).    *)
(* The line break "\n" is always a piece of its own, so that the lines of  *)
(* a text are what lies between two "\n" pieces.  The empty Python string  *)
(* is the empty sequence, and string concatenation is \o.                  *)
(*                                                                         *)
(* A Python value that may be None is a sequence of length 0 (None) or of  *)
(* length 1 (the value).                                                   *)
(***************************************************************************)
EXTENDS Integers, Sequences, FiniteSets, TLC

VARIABLES
    self,           \* the Tably object's attributes (src/tably.py:62-77)
    fs,             \* the source files: file name -> None | Some(rows)
    disk,           \* the destination files: path -> None | Some(text)
    writes,         \* every save_content call that opened its file, in order
    stdout,         \* everything printed, in order
    pc,             \* where the run is
    all_tables,     \* combine_tables' local list
    idx,            \* the position in the file loop that is running
    outs,           \* run's local list of per-source destinations
    final_content,  \* run's local: what combine_tables returned
    tables,         \* what each create_table call returned, in order
    args,           \* the parsed arguments the Tably object was built from
    call,           \* the arguments of a function called on its own
    ret             \* that call's result

vars == <<self, fs, disk, writes, stdout, pc, all_tables, idx, outs,
          final_content, tables, args, call, ret>>

(***************************************************************************)
(* Bounds of the model.                                                    *)
(***************************************************************************)
MaxAlignLen == 3
MaxColumns == 3
MaxCells == 2
MaxChars == 3
MaxUnits == 2
MaxUnitLen == 3
MaxFiles == 2
MaxRows == 3
MaxSkip == 3

(***************************************************************************)
(* Python's None, truthiness and list operations.                          *)
(***************************************************************************)
None == <<>>
Some(v) == <<v>>

IsNone(o) == o = None

\* `if x:` for x a str or a list that may be None
Truthy(o) == o # None /\ o[1] # <<>>

Min(a, b) == IF a < b THEN a ELSE b
Max(a, b) == IF a > b THEN a ELSE b

\* n * s for a string s
Repeat(s, n) == [i \in 1..(n * Len(s)) |-> s[((i - 1) % Len(s)) + 1]]

\* list.insert(i, x) for i >= 0: positions past the end append
PyInsert(list, i, x) ==
    LET k == Min(i, Len(list))
    IN SubSeq(list, 1, k) \o <<x>> \o SubSeq(list, k + 1, Len(list))

RECURSIVE Join(_, _)
\* sep.join(parts)
Join(sep, parts) ==
    IF parts = <<>> THEN <<>>
    ELSE IF Len(parts) = 1 THEN parts[1]
    ELSE parts[1] \o sep \o Join(sep, Tail(parts))

RECURSIVE Replace(_, _, _)
\* s.replace(ch, rep) for a one-character ch
Replace(s, ch, rep) ==
    IF s = <<>> THEN <<>>
    ELSE (IF s[1] = ch THEN rep ELSE <<s[1]>>) \o Replace(Tail(s), ch, rep)

\* needle in hay, for strings: needle is a contiguous part of hay
PyIn(needle, hay) ==
    \E k \in 0..(Len(hay) - Len(needle)) :
        SubSeq(hay, k + 1, k + Len(needle)) = needle

\* '{:F<W.P}'.format(s): s cut to its first P characters, then filled on
\* the right with F up to the width W
FormatFillLeft(s, fillch, width, precision) ==
    LET cut == SubSeq(s, 1, Min(Len(s), precision))
    IN cut \o [i \in 1..(width - Len(cut)) |-> fillch]

(***************************************************************************)
(* format_alignment                                                        *)
(***************************************************************************)
AlignChars == {"l", "c", "r"}

format_alignment_nocut(align, length) ==
    LET a == IF \E i \in 1..Len(align) : align[i] \notin AlignChars
             THEN <<"c">> ELSE align
    IN IF Len(a) = 1 THEN Repeat(a, length)
       ELSE IF Len(a) = length THEN a
       ELSE FormatFillLeft(a, "c", length, Len(a))

format_alignment(align, length) ==
    LET a == IF \E i \in 1..Len(align) : align[i] \notin AlignChars
             THEN <<"c">> ELSE align
    IN IF Len(a) = 1 THEN Repeat(a, length)
       ELSE IF Len(a) = length THEN a
       ELSE FormatFillLeft(a, "c", length, length)

(***************************************************************************)
(* escape                                                                  *)
(***************************************************************************)
EscapeChars == <<"#", "$", "%", "&", "_", "}", "{">>

RECURSIVE EscapePasses(_, _)
\* the passes of escape's loop for the characters chars, in order
EscapePasses(line, chars) ==
    IF chars = <<>> THEN line
    ELSE EscapePasses(
            [j \in 1..Len(line) |-> Replace(line[j], chars[1], <<"\\", chars[1]>>)],
            Tail(chars))

escape_backslash_too(line) == EscapePasses(line, EscapeChars \o <<"\\">>)

escape(line) == EscapePasses(line, EscapeChars)

\* self.tex_str
tex_str(s, line) == IF s.no_escape THEN line ELSE escape(line)

(***************************************************************************)
(* Tably.get_units                                                         *)
(***************************************************************************)
get_units(s) ==
    LET us == tex_str(s, s.units[1])
        formatted_units ==
            [j \in 1..Len(us) |->
                IF PyIn(us[j], <<"-", "/", "0">>) THEN <<>>
                ELSE <<"[">> \o us[j] \o <<"]">>]
    IN Join(<<" & ">>, formatted_units)

(***************************************************************************)
(* The templates PREAMBLE, HEADER, FOOTER, LABEL and CAPTION.              *)
(***************************************************************************)
PREAMBLE ==
    <<"\\documentclass[11pt, a4paper]{article}", "\n",
      "\\usepackage{booktabs}", "\n",
      "\\begin{document}">>

\* '\\end{document}\n'
END_DOCUMENT == <<"\\end{document}", "\n">>

\* HEADER.format(label=..., caption=..., align=..., indent=...)
HEADER(label, caption, align, indent) ==
    <<"\\begin{table}[htb]", "\n">>
    \o indent \o <<"\\centering">> \o caption \o label \o <<"\n">>
    \o indent \o <<"\\begin{tabular}{@{}">> \o align \o <<"@{}}", "\n">>
    \o indent \o indent \o <<"\\toprule">>

\* FOOTER.format(indent=...)
FOOTER(indent) ==
    indent \o indent \o <<"\\bottomrule", "\n">>
    \o indent \o <<"\\end{tabular}", "\n">>
    \o <<"\\end{table}">>

add_label(label, indent) ==
    IF Truthy(label)
    THEN <<"\n">> \o indent \o <<"\\label{">> \o label[1] \o <<"}">>
    ELSE <<>>

add_caption(caption, indent) ==
    IF Truthy(caption)
    THEN <<"\n">> \o indent \o <<"\\caption{">> \o caption[1] \o <<"}">>
    ELSE <<>>

RELABEL_WARNING == <<"% don't forget to manually re-label the tables">>

(***************************************************************************)
(* What is printed: print(x) adds the record of x to stdout.  A diagnostic *)
(* is kept apart from a printed document by its kind.                      *)
(***************************************************************************)
Message(text) == [kind |-> "message", text |-> text]
Content(text) == [kind |-> "content", text |-> text]

(***************************************************************************)
(* Tably.create_row and Tably.create_table                                 *)
(***************************************************************************)
\* 4*' ' if not self.no_indent else ''
Indent(s) == IF ~s.no_indent THEN <<"    ">> ELSE <<>>

create_row(s, line, indent) ==
    indent \o indent \o Join(<<" & ">>, tex_str(s, line)) \o <<" \\\\">>

MIDRULE(indent) == indent \o indent \o <<"\\midrule">>

WithHeaderUnitsLast(s, rows, indent) ==
    IF ~s.no_header
    THEN LET r1 == PyInsert(rows, 1, MIDRULE(indent))
         IN IF Truthy(s.units)
            THEN PyInsert([r1 EXCEPT ![1] = r1[1] \o <<"\\relax">>], 2,
                          indent \o indent \o get_units(s) \o <<" \\\\">>)
            ELSE r1
    ELSE rows

\* lines 149-154: the separator, the marker and the units row
WithHeader(s, rows, indent) ==
    IF ~s.no_header
    THEN LET r1 == PyInsert(rows, 1, MIDRULE(indent))
         IN IF Truthy(s.units)
            THEN PyInsert([r1 EXCEPT ![1] = r1[1] \o <<"\\relax">>], 1,
                          indent \o indent \o get_units(s) \o <<" \\\\">>)
            ELSE r1
    ELSE rows

ReadRowsSkipInclusive(s, src, indent) ==
    [j \in 1..(Len(src) - Max(s.skip + 1, 0)) |->
        create_row(s, src[j + Max(s.skip + 1, 0)], indent)]

\* lines 137-140: the rows of the file that the loop formats
ReadRows(s, src, indent) ==
    [j \in 1..(Len(src) - Max(s.skip, 0)) |->
        create_row(s, src[j + Max(s.skip, 0)], indent)]

\* create_table(file), with src the file system's entry for file:
\* what it returns and what it prints
create_table(s, src, file) ==
    LET indent == Indent(s)
    IN IF IsNone(src)
       THEN [table |-> <<>>,
             printed |-> <<Message(<<"File ">> \o file \o <<" doesn't exist!!\n">>)>>]
       ELSE LET rows == ReadRows(s, src[1], indent)
            IN IF rows = <<>>
               THEN [table |-> <<>>,
                     printed |-> <<Message(<<"No table created from the ">> \o file
                                           \o <<" file. Check if the file is empty or you used too high skip value.\n">>)>>]
               ELSE LET content == Join(<<"\n">>, WithHeader(s, rows, indent))
                        columns == src[1][Len(src[1])]
                    IN [table |->
                            IF ~s.fragment
                            THEN Join(<<"\n">>,
                                   <<HEADER(add_label(s.label, indent),
                                            add_caption(s.caption, indent),
                                            format_alignment(s.align, Len(columns)),
                                            indent),
                                     content,
                                     FOOTER(indent)>>)
                            ELSE content,
                        printed |-> <<>>]

(***************************************************************************)
(* Paths.  A path is <<directory, stem, extension>>; the directory "" is   *)
(* the working directory.                                                  *)
(***************************************************************************)
\* os.path.splitext(file)[0]+'.tex'
splitext_tex(file) == <<file[1], file[2], ".tex">>

\* os.path.join(d, os.path.splitext(os.path.basename(file))[0])+'.tex'
join_tex(d, file) == <<d[2], file[2], ".tex">>

\* the directories that exist
Dirs == {<<"", "outd", "">>}

isdir(p) == p \in Dirs

\* open(outfile, 'w' or 'a') raises FileNotFoundError
NoSuchDirectory(p) == p[1] # "" /\ \A d \in Dirs : d[2] # p[1]

(***************************************************************************)
(* save_content, with the caller's `except FileNotFoundError`              *)
(***************************************************************************)
\* the file after the write
Written(old, content, replace) ==
    IF replace \/ IsNone(old) THEN Some(content) ELSE Some(old[1] \o content)

\* the disk, the record of writes and the output after
\* save_content(content, outfile, self.replace) in its try block
save_content(s, content, outfile) ==
    IF NoSuchDirectory(outfile)
    THEN [disk |-> disk,
          writes |-> writes,
          printed |-> <<Message(outfile \o <<" is not a valid/known path. Could not save there.">>)>>]
    ELSE [disk |-> [disk EXCEPT ![outfile] = Written(disk[outfile], content, s.replace)],
          writes |-> Append(writes, [path |-> outfile, content |-> content,
                                     replace |-> s.replace]),
          printed |-> <<Message((IF s.replace THEN <<"The content is written to ">>
                                 ELSE <<"The content is appended to ">>) \o outfile)>>]

(***************************************************************************)
(* Tably.__init__ and the flags of Tably.run                               *)
(***************************************************************************)
\* __init__: the attributes are the arguments
TablyInit(a) == a

RunFlagsKeepPreamble(s) ==
    LET s1 == IF s.fragment_skip_header
              THEN [s EXCEPT !.skip = 1, !.no_header = TRUE, !.fragment = TRUE]
              ELSE s
    IN IF s1.fragment
       THEN [s1 EXCEPT !.no_indent = TRUE, !.label = None]
       ELSE s1

\* run, lines 90-98
RunFlags(s) ==
    LET s1 == IF s.fragment_skip_header
              THEN [s EXCEPT !.skip = 1, !.no_header = TRUE, !.fragment = TRUE]
              ELSE s
    IN IF s1.fragment
       THEN [s1 EXCEPT !.no_indent = TRUE, !.label = None, !.preamble = FALSE]
       ELSE s1

(***************************************************************************)
(* Tably.combine_tables                                                    *)
(***************************************************************************)
\* lines 180-182
CombineStart(s) ==
    IF Truthy(s.label) /\ Len(s.files) > 1 THEN <<RELABEL_WARNING>> ELSE <<>>

CombineAddAlways(all, table) == Append(all, table)

\* lines 186-187
CombineAdd(all, table) == IF table # <<>> THEN Append(all, table) ELSE all

CombineFinishPreambleSecond(s, all) ==
    IF all = <<>> THEN None
    ELSE Some(Join(<<"\n", "\n">>,
                   IF s.preamble THEN PyInsert(all, 1, PREAMBLE) \o <<END_DOCUMENT>>
                   ELSE all))

\* lines 188-193
CombineFinish(s, all) ==
    IF all = <<>> THEN None
    ELSE Some(Join(<<"\n", "\n">>,
                   IF s.preamble THEN <<PREAMBLE>> \o all \o <<END_DOCUMENT>>
                   ELSE all))

(***************************************************************************)
(* Tably.save_single_table                                                 *)
(***************************************************************************)
\* what save_single_table(file, out) does once create_table has returned ct
save_single_table(s, ct, out) ==
    LET table == <<ct.table>>
    IN IF table # <<>>
       THEN LET final == Join(<<"\n", "\n">>,
                              IF s.preamble
                              THEN <<PREAMBLE>> \o table \o <<END_DOCUMENT>>
                              ELSE table)
                saved == save_content(s, final, out)
            IN [saved EXCEPT !.printed = ct.printed \o saved.printed]
       ELSE [disk |-> disk, writes |-> writes, printed |-> ct.printed]

(***************************************************************************)
(* The run: Tably.run, one action per step.                                *)
(***************************************************************************)
\* lines 90-101
Run ==
    /\ pc = "run"
    /\ self' = RunFlags(self)
    /\ pc' = IF Truthy(self.outfile) \/ IsNone(self.separate_outfiles)
             THEN "combine_tables" ELSE "separate"
    /\ UNCHANGED <<fs, disk, writes, stdout, all_tables, idx, outs,
                   final_content, tables, args, call, ret>>

\* combine_tables, lines 180-182
CombineBegin ==
    /\ pc = "combine_tables"
    /\ all_tables' = CombineStart(self)
    /\ idx' = 1
    /\ pc' = "combine_loop"
    /\ UNCHANGED <<self, fs, disk, writes, stdout, outs, final_content,
                   tables, args, call, ret>>

\* combine_tables, lines 184-187: one turn of the loop
CombineFile ==
    /\ pc = "combine_loop"
    /\ idx <= Len(self.files)
    /\ LET file == self.files[idx]
           ct == create_table(self, fs[file], file)
       IN /\ all_tables' = CombineAdd(all_tables, ct.table)
          /\ stdout' = stdout \o ct.printed
          /\ tables' = Append(tables, [file |-> file, table |-> ct.table])
    /\ idx' = idx + 1
    /\ UNCHANGED <<self, fs, disk, writes, pc, outs, final_content, args, call, ret>>

\* combine_tables, lines 188-193, and its return to run, line 102
CombineEnd ==
    /\ pc = "combine_loop"
    /\ idx > Len(self.files)
    /\ final_content' = Some(CombineFinish(self, all_tables))
    /\ pc' = "combined"
    /\ UNCHANGED <<self, fs, disk, writes, stdout, all_tables, idx, outs,
                   tables, args, call, ret>>

\* run, lines 103-111
Output ==
    /\ pc = "combined"
    /\ IF ~Truthy(final_content[1])
       THEN /\ pc' = "done"
            /\ UNCHANGED <<disk, writes, stdout>>
       ELSE /\ pc' = "separate"
            /\ IF Truthy(self.outfile)
               THEN LET saved == save_content(self, final_content[1][1], self.outfile[1])
                    IN /\ disk' = saved.disk
                       /\ writes' = saved.writes
                       /\ stdout' = stdout \o saved.printed
               ELSE /\ stdout' = Append(stdout, Content(final_content[1][1]))
                    /\ UNCHANGED <<disk, writes>>
    /\ UNCHANGED <<self, fs, all_tables, idx, outs, final_content, tables,
                   args, call, ret>>

\* run, lines 114-121
SeparateBegin ==
    /\ pc = "separate"
    /\ IF IsNone(self.separate_outfiles)
       THEN /\ pc' = "done"
            /\ UNCHANGED <<outs, idx, stdout>>
       ELSE LET given == self.separate_outfiles[1]
            IN /\ pc' = "save_single"
               /\ idx' = 1
               /\ outs' = IF Len(given) = 0
                          THEN [j \in 1..Len(self.files) |-> splitext_tex(self.files[j])]
                          ELSE IF isdir(given[1])
                          THEN [j \in 1..Len(self.files) |-> join_tex(given[1], self.files[j])]
                          ELSE given
               /\ stdout' = IF Len(given) # 0 /\ ~isdir(given[1])
                               /\ Len(given) # Len(self.files)
                            THEN Append(stdout, Message(<<"WARNING: Number of .csv files and number of output files do not match!">>))
                            ELSE stdout
    /\ UNCHANGED <<self, fs, disk, writes, all_tables, final_content, tables,
                   args, call, ret>>

\* run, lines 122-123: one turn of the loop over zip(self.files, outs)
SaveSingle ==
    /\ pc = "save_single"
    /\ idx <= Min(Len(self.files), Len(outs))
    /\ LET file == self.files[idx]
           ct == create_table(self, fs[file], file)
           saved == save_single_table(self, ct, outs[idx])
       IN /\ disk' = saved.disk
          /\ writes' = saved.writes
          /\ stdout' = stdout \o saved.printed
          /\ tables' = Append(tables, [file |-> file, table |-> ct.table])
    /\ idx' = idx + 1
    /\ UNCHANGED <<self, fs, pc, all_tables, outs, final_content, args, call, ret>>

\* run, line 122: the loop is over
SeparateEnd ==
    /\ pc = "save_single"
    /\ idx > Min(Len(self.files), Len(outs))
    /\ pc' = "done"
    /\ UNCHANGED <<self, fs, disk, writes, stdout, all_tables, idx, outs,
                   final_content, tables, args, call, ret>>

(***************************************************************************)
(* The runs checked: every combination of the flags over one to MaxFiles   *)
(* sources, each missing, of one row or of two rows.                       *)
(***************************************************************************)
FileA == <<"", "a", ".csv">>
FileB == <<"", "b", ".csv">>
SourceNames == {FileA, FileB}

Out1 == <<"", "o1", ".tex">>
Out2 == <<"", "o2", ".tex">>
OutDir == <<"", "outd", "">>
BadOut == <<"nodir", "o", ".tex">>

DestNames ==
    {Out1, Out2, BadOut}
    \cup {splitext_tex(f) : f \in SourceNames}
    \cup {join_tex(OutDir, f) : f \in SourceNames}

Digits == <<"1", "2", "3", "4", "5", "6", "7", "8", "9">>

\* the first n rows of the sample source named file: a row holds the
\* file's stem, the row's number and a character that escape changes
SampleRows(file, n) ==
    [j \in 1..n |-> <<<<file[2]>>, <<Digits[j]>>, <<"_">>>>]

SeqsUpTo(S, lo, hi) == UNION {[1..n -> S] : n \in lo..hi}

NoCall == [fn |-> "none"]

RunArgs ==
    {[files |-> fl, no_header |-> FALSE, caption |-> cap, label |-> lab,
      align |-> <<"c">>, no_indent |-> ni, outfile |-> o,
      separate_outfiles |-> oo, skip |-> k, preamble |-> pre, units |-> None,
      fragment |-> fr, fragment_skip_header |-> ff, replace |-> rep,
      no_escape |-> FALSE] :
        fl \in SeqsUpTo(SourceNames, 1, MaxFiles),
        cap \in {None, Some(<<"C">>)},
        lab \in {None, Some(<<"L">>)},
        ni \in BOOLEAN, pre \in BOOLEAN, fr \in BOOLEAN, ff \in BOOLEAN,
        rep \in BOOLEAN,
        k \in {0, 1},
        o \in {None, Some(Out1)},
        oo \in {None, Some(<<>>), Some(<<Out1, BadOut>>), Some(<<OutDir>>)}}

RunSources ==
    {[f \in SourceNames |-> IF n[f] = 0 THEN None ELSE Some(SampleRows(f, n[f]))] :
        n \in [SourceNames -> 0..2]}

Init ==
    /\ args \in RunArgs
    /\ self = TablyInit(args)
    /\ fs \in RunSources
    /\ disk = [p \in DestNames |-> IF p = Out1 THEN Some(<<"old", "\n">>) ELSE None]
    /\ writes = <<>>
    /\ stdout = <<>>
    /\ pc = "run"
    /\ all_tables = <<>>
    /\ idx = 0
    /\ outs = <<>>
    /\ final_content = None
    /\ tables = <<>>
    /\ call = NoCall
    /\ ret = None

Next ==
    \/ Run
    \/ CombineBegin
    \/ CombineFile
    \/ CombineEnd
    \/ Output
    \/ SeparateBegin
    \/ SaveSingle
    \/ SeparateEnd

Spec == Init /\ [][Next]_vars

(***************************************************************************)
(* The functions called on their own.  The variables of the run keep the   *)
(* values of an object that run has not been called on.                    *)
(***************************************************************************)
IdleArgs ==
    [files |-> <<FileA>>, no_header |-> FALSE, caption |-> None, label |-> None,
     align |-> <<"c">>, no_indent |-> FALSE, outfile |-> None,
     separate_outfiles |-> None, skip |-> 0, preamble |-> FALSE, units |-> None,
     fragment |-> FALSE, fragment_skip_header |-> FALSE, replace |-> FALSE,
     no_escape |-> FALSE]

IdleRun ==
    /\ disk = [p \in DestNames |-> None]
    /\ writes = <<>>
    /\ stdout = <<>>
    /\ pc = "call"
    /\ all_tables = <<>>
    /\ idx = 0
    /\ outs = <<>>
    /\ final_content = None
    /\ tables = <<>>
    /\ ret = None

\* ---- format_alignment(align, length)
InitAlign ==
    /\ call \in {[fn |-> "format_alignment", align |-> a, length |-> n] :
                    a \in SeqsUpTo(AlignChars \cup {"x"}, 0, MaxAlignLen),
                    n \in 0..MaxColumns}
    /\ args = IdleArgs
    /\ self = TablyInit(args)
    /\ fs = [f \in SourceNames |-> None]
    /\ IdleRun

CallFormatAlignment ==
    /\ pc = "call"
    /\ call.fn = "format_alignment"
    /\ ret' = Some(format_alignment(call.align, call.length))
    /\ pc' = "returned"
    /\ UNCHANGED <<self, fs, disk, writes, stdout, all_tables, idx, outs,
                   final_content, tables, args, call>>

SpecAlign == InitAlign /\ [][CallFormatAlignment]_vars

\* ---- escape(line)
CellChars == {EscapeChars[i] : i \in 1..Len(EscapeChars)} \cup {"\\", "a"}

RECURSIVE CellLists(_, _)
\* the lists of at most n cells with at most budget characters in all
CellLists(n, budget) ==
    IF n = 0 THEN {<<>>}
    ELSE {<<>>} \cup
         UNION {{<<c>> \o rest : rest \in CellLists(n - 1, budget - Len(c))} :
                   c \in SeqsUpTo(CellChars, 0, budget)}

\* given is the caller's list as it was when the call was made
InitEscape ==
    /\ call \in {[fn |-> "escape", line |-> l, given |-> l] :
                    l \in CellLists(MaxCells, MaxChars)}
    /\ args = IdleArgs
    /\ self = TablyInit(args)
    /\ fs = [f \in SourceNames |-> None]
    /\ IdleRun

\* the caller's list after escape(line): each pass binds a new list to the
\* local name, and the list passed in is left as it is
escape_argument(line) == line

CallEscape ==
    /\ pc = "call"
    /\ call.fn = "escape"
    /\ ret' = Some(escape(call.line))
    /\ call' = [call EXCEPT !.line = escape_argument(call.line)]
    /\ pc' = "returned"
    /\ UNCHANGED <<self, fs, disk, writes, stdout, all_tables, idx, outs,
                   final_content, tables, args>>

SpecEscape == InitEscape /\ [][CallEscape]_vars

\* ---- Tably.get_units()
UnitChars == {"-", "/", "0", "m", "_"}

InitUnits ==
    /\ args \in {[IdleArgs EXCEPT !.units = Some(u), !.no_escape = ne] :
                    u \in SeqsUpTo(SeqsUpTo(UnitChars, 0, MaxUnitLen), 1, MaxUnits),
                    ne \in BOOLEAN}
    /\ self = TablyInit(args)
    /\ call = [fn |-> "get_units"]
    /\ fs = [f \in SourceNames |-> None]
    /\ IdleRun

CallGetUnits ==
    /\ pc = "call"
    /\ call.fn = "get_units"
    /\ ret' = Some(get_units(self))
    /\ pc' = "returned"
    /\ UNCHANGED <<self, fs, disk, writes, stdout, all_tables, idx, outs,
                   final_content, tables, args, call>>

SpecUnits == InitUnits /\ [][CallGetUnits]_vars

\* ---- Tably.create_table(file), on an object whose flags run has set
TableRows == {<<>>, <<<<"h">>, <<"_">>>>, <<<<"1">>>>}

TableArgs ==
    {[IdleArgs EXCEPT !.skip = k, !.no_header = nh, !.units = u,
                      !.fragment = fr, !.no_indent = ni, !.no_escape = ne,
                      !.label = Some(<<"L">>), !.caption = Some(<<"C">>),
                      !.align = <<"l", "r">>] :
        k \in 0..MaxSkip, nh \in BOOLEAN, fr \in BOOLEAN, ni \in BOOLEAN,
        ne \in BOOLEAN,
        u \in {None, Some(<<>>), Some(<<<<"m", "/", "s">>, <<"-">>>>)}}

InitTable ==
    /\ args \in TableArgs
    /\ self = RunFlags(TablyInit(args))
    /\ call = [fn |-> "create_table", file |-> FileA]
    /\ fs \in {[f \in SourceNames |-> src] :
                  src \in {None} \cup {Some(r) : r \in SeqsUpTo(TableRows, 0, MaxRows)}}
    /\ IdleRun

CallCreateTable ==
    /\ pc = "call"
    /\ call.fn = "create_table"
    /\ LET ct == create_table(self, fs[call.file], call.file)
       IN /\ ret' = Some(ct.table)
          /\ stdout' = stdout \o ct.printed
          /\ tables' = Append(tables, [file |-> call.file, table |-> ct.table])
    /\ pc' = "returned"
    /\ UNCHANGED <<self, fs, disk, writes, all_tables, idx, outs,
                   final_content, args, call>>

SpecTable == InitTable /\ [][CallCreateTable]_vars

(***************************************************************************)
(* Reading a text back: its lines and its parts.                           *)
(***************************************************************************)
\* the first place where sep starts in text, 0 if there is none
FirstAt(text, sep) ==
    LET at == {k \in 1..(Len(text) - Len(sep) + 1) :
                  SubSeq(text, k, k + Len(sep) - 1) = sep}
    IN IF at = {} THEN 0 ELSE CHOOSE k \in at : \A m \in at : k <= m

RECURSIVE Split(_, _)
\* what lies between the occurrences of sep in text, left to right
Split(text, sep) ==
    LET k == FirstAt(text, sep)
    IN IF k = 0 THEN <<text>>
       ELSE <<SubSeq(text, 1, k - 1)>>
            \o Split(SubSeq(text, k + Len(sep), Len(text)), sep)

LinesOf(text) == Split(text, <<"\n">>)

\* the parts of a document: what lies between its blank lines
PartsOf(text) == Split(text, <<"\n", "\n">>)

Has(text, piece) == \E i \in 1..Len(text) : text[i] = piece

\* the lines of an assembled table between \toprule and \bottomrule, or
\* all of its lines when it has no wrapper
BodyLines(table) ==
    LET ls == LinesOf(table)
        top == {i \in 1..Len(ls) : Has(ls[i], "\\toprule")}
        bot == {i \in 1..Len(ls) : Has(ls[i], "\\bottomrule")}
    IN IF top = {} \/ bot = {} THEN ls
       ELSE SubSeq(ls, (CHOOSE i \in top : TRUE) + 1, (CHOOSE i \in bot : TRUE) - 1)

IsMidrule(line) == Has(line, "\\midrule")

\* a source that gives no table: missing, or no row left after skipping
Unusable(s, f) == IsNone(fs[f]) \/ Len(fs[f][1]) <= s.skip

(***************************************************************************)
(* C1: format_alignment(align, n) is n characters of l, c, r: all c if     *)
(* align has a character outside l, c, r; else align's one character n     *)
(* times if it has one; else align's first n characters, followed by c up  *)
(* to n.                                                                   *)
(***************************************************************************)
AlignmentWanted(align, n) ==
    [i \in 1..n |->
        IF \E k \in 1..Len(align) : align[k] \notin {"l", "c", "r"} THEN "c"
        ELSE IF Len(align) = 1 THEN align[1]
        ELSE IF i <= Len(align) THEN align[i]
        ELSE "c"]

C1_Alignment ==
    (pc = "returned" /\ call.fn = "format_alignment") =>
        /\ Len(ret[1]) = call.length
        /\ \A i \in 1..Len(ret[1]) : ret[1][i] \in {"l", "c", "r"}
        /\ ret[1] = AlignmentWanted(call.align, call.length)

\* a valid alignment longer than the column count was cut
C1_Witness ==
    /\ pc = "returned"
    /\ call.fn = "format_alignment"
    /\ call.align = <<"l", "r", "c">>
    /\ call.length = 2
    /\ ret = Some(<<"l", "r">>)

(***************************************************************************)
(* C2: escape returns as many cells as it was given, each the given cell   *)
(* with one backslash put before every # $ % & _ } { and nothing else      *)
(* changed (a backslash of the cell stays one backslash), and leaves the   *)
(* list it was given as it was.                                            *)
(***************************************************************************)
Reserved == {"#", "$", "%", "&", "_", "}", "{"}

\* where the i-th character of cell stands in the escaped cell
EscapedPos(cell, i) == i + Cardinality({k \in 1..i : cell[k] \in Reserved})

EscapedOnce(cell, out) ==
    /\ Len(out) = EscapedPos(cell, Len(cell))
    /\ \A i \in 1..Len(cell) :
        /\ out[EscapedPos(cell, i)] = cell[i]
        /\ cell[i] \in Reserved => out[EscapedPos(cell, i) - 1] = "\\"

C2_Escape ==
    (pc = "returned" /\ call.fn = "escape") =>
        /\ Len(ret[1]) = Len(call.given)
        /\ \A j \in 1..Len(call.given) : EscapedOnce(call.given[j], ret[1][j])
        /\ call.line = call.given

\* the one cell "a_a" became "a\_a"
C2_Witness ==
    /\ pc = "returned"
    /\ call.fn = "escape"
    /\ call.given = <<<<"a", "_", "a">>>>
    /\ ret = Some(<<<<"a", "\\", "_", "a">>>>)

(***************************************************************************)
(* C6: get_units gives the empty string for a unit exactly when the        *)
(* escaped unit is one of "-", "/", "0", and the unit in square brackets   *)
(* otherwise, joined with " & " in the order of the units.                 *)
(***************************************************************************)
Sentinels == {<<"-">>, <<"/">>, <<"0">>}

C6_Units ==
    (pc = "returned" /\ call.fn = "get_units") =>
        LET us == tex_str(self, self.units[1])
        IN ret[1] = Join(<<" & ">>,
                         [j \in 1..Len(us) |->
                             IF us[j] \in Sentinels THEN <<>>
                             ELSE <<"[">> \o us[j] \o <<"]">>])

(***************************************************************************)
(* The composer's document, read back.                                     *)
(***************************************************************************)
\* the sources of the run that give a table, in the order they were listed
UsableFiles == SelectSeq(self.files, LAMBDA f : ~Unusable(self, f))

\* the tables of the usable sources, in that order
UsableTables ==
    [j \in 1..Len(UsableFiles) |->
        create_table(self, fs[UsableFiles[j]], UsableFiles[j]).table]

\* combine_tables has returned
Combined == final_content # None

\* combine_tables has just returned to run, line 102 (what it returned and
\* what it read do not change in the rest of the run)
Returned == pc = "combined"

\* combine_tables has just returned a document
Composed == Returned /\ final_content[1] # None

Document == final_content[1][1]

PrintedContent == SelectSeq(stdout, LAMBDA m : m.kind = "content")

(***************************************************************************)
(* C3: when every source is missing or has no row left after skipping,     *)
(* combine_tables returns None, and run prints no document and writes      *)
(* nothing.                                                                *)
(***************************************************************************)
C3_NoDocument ==
    (Combined /\ \A j \in 1..Len(self.files) : Unusable(self, self.files[j])) =>
        /\ final_content[1] = None
        /\ PrintedContent = <<>>
        /\ writes = <<>>

(***************************************************************************)
(* C4: when at least one source is usable, the parts of the composed       *)
(* document other than the preamble, the warning comment and the trailer   *)
(* are the tables of the usable sources, in the order the sources were     *)
(* listed; no part is empty; and create_table was called for every source, *)
(* in order, whatever the sources before it gave.                          *)
(***************************************************************************)
IsTablePart(part) == part \notin {PREAMBLE, RELABEL_WARNING, END_DOCUMENT}

C4_OneTablePerUsableSource ==
    (Returned /\ \E j \in 1..Len(self.files) : ~Unusable(self, self.files[j])) =>
        /\ final_content[1] # None
        /\ LET parts == PartsOf(Document)
           IN /\ SelectSeq(parts, IsTablePart) = UsableTables
              /\ \A k \in 1..Len(parts) : parts[k] # <<>>
        /\ Len(tables) = Len(self.files)
        /\ \A j \in 1..Len(self.files) : tables[j].file = self.files[j]

\* an unusable source, then a usable one: one table, after the preamble
C4_Witness ==
    /\ Composed
    /\ Len(self.files) = 2
    /\ Unusable(self, self.files[1])
    /\ ~Unusable(self, self.files[2])
    /\ Len(SelectSeq(PartsOf(Document), IsTablePart)) = 1
    /\ self.preamble

(***************************************************************************)
(* C5 as stated: with a label and more than one source, the first line of  *)
(* the composed document is the warning comment and the parts are, in      *)
(* order, the warning comment, the preamble, the tables, the trailer.      *)
(* (Stated of the documents that hold a table.)                            *)
(***************************************************************************)
PreambleParts == IF self.preamble THEN <<PREAMBLE>> ELSE <<>>
TrailerParts == IF self.preamble THEN <<END_DOCUMENT>> ELSE <<>>

C5_WarningFirst ==
    (Composed /\ Truthy(self.label) /\ Len(self.files) > 1
        /\ UsableTables # <<>>) =>
        /\ LinesOf(Document)[1] = RELABEL_WARNING
        /\ PartsOf(Document) =
              <<RELABEL_WARNING>> \o PreambleParts \o UsableTables \o TrailerParts

(***************************************************************************)
(* C5 amended: with a label and more than one source, the parts of the     *)
(* composed document are, in order, the preamble (with the preamble option *)
(* on), the warning comment, the tables, the trailer (with the preamble    *)
(* option on): the warning comment is the first line of the document with  *)
(* the preamble option off, and the first line after the preamble's three  *)
(* lines and a blank line with it on.                                      *)
(***************************************************************************)
C5_WarningAfterPreamble ==
    (Composed /\ Truthy(self.label) /\ Len(self.files) > 1) =>
        LET lines == LinesOf(Document)
        IN /\ PartsOf(Document) =
                 PreambleParts \o <<RELABEL_WARNING>> \o UsableTables \o TrailerParts
           /\ ~self.preamble => lines[1] = RELABEL_WARNING
           /\ self.preamble =>
                 /\ SubSeq(lines, 1, 3) = LinesOf(PREAMBLE)
                 /\ lines[4] = <<>>
                 /\ lines[5] = RELABEL_WARNING

\* a labelled document of two sources with the preamble on
C5_Witness ==
    /\ Composed
    /\ Truthy(self.label)
    /\ Len(self.files) = 2
    /\ self.preamble
    /\ Len(UsableTables) = 2
    /\ PartsOf(Document)[2] = RELABEL_WARNING

(***************************************************************************)
(* C7: in a run with the fragment flag or the fragment-with-header-skip    *)
(* flag, no table assembled and no text printed or written holds an        *)
(* indent, a label, a caption, a piece of the table or tabular wrapper, of *)
(* the preamble or of the trailer, whatever was asked for.                 *)
(***************************************************************************)
WrapperPieces ==
    {"    ", "\\label{", "\\caption{", "\\begin{table}[htb]", "\\centering",
     "\\begin{tabular}{@{}", "@{}}", "\\toprule", "\\bottomrule",
     "\\end{tabular}", "\\end{table}",
     "\\documentclass[11pt, a4paper]{article}", "\\usepackage{booktabs}",
     "\\begin{document}", "\\end{document}"}

Bare(text) == \A i \in 1..Len(text) : text[i] \notin WrapperPieces

FragmentAsked == args.fragment \/ args.fragment_skip_header

C7_FragmentIsBare ==
    FragmentAsked =>
        /\ \A j \in 1..Len(tables) : Bare(tables[j].table)
        /\ \A j \in 1..Len(writes) : Bare(writes[j].content)
        /\ \A j \in 1..Len(PrintedContent) : Bare(PrintedContent[j].text)

\* the shortcut flag alone, with indent, label, caption and preamble asked
\* for: the combined document was written to the output path, and then a
\* table to a file of its own
C7_Witness ==
    /\ pc = "done"
    /\ args.fragment_skip_header /\ ~args.fragment
    /\ ~args.no_indent /\ args.preamble
    /\ Truthy(args.label) /\ Truthy(args.caption)
    /\ Truthy(args.outfile) /\ ~IsNone(args.separate_outfiles)
    /\ Len(writes) >= 2
    /\ \A j \in 1..Len(writes) : writes[j].content # <<>>
    /\ \E j \in 1..Len(tables) : tables[j].table # <<>>

(***************************************************************************)
(* C9: with separate output files and no single output path, a source that *)
(* is missing or has no row left after skipping causes no write to its     *)
(* destination: every write of the run is to the destination of a usable   *)
(* source.                                                                 *)
(***************************************************************************)
C9_NoWriteForUnusable ==
    (pc \in {"save_single", "done"} /\ ~Truthy(self.outfile)
        /\ ~IsNone(self.separate_outfiles)) =>
        \A w \in 1..Len(writes) :
            \E j \in 1..Min(Len(self.files), Len(outs)) :
                /\ outs[j] = writes[w].path
                /\ ~Unusable(self, self.files[j])

(***************************************************************************)
(* One assembled table, read back.                                         *)
(***************************************************************************)
\* create_table(file) has returned for a file that exists
Assembled ==
    pc = "returned" /\ call.fn = "create_table" /\ ~IsNone(fs[call.file])

Source == fs[call.file][1]

\* the rows claimed: those at positions skip+1 .. n of the source (the
\* positions skip .. n-1 of the claim, which counts from 0), formatted
WantedRows ==
    [j \in 1..(Len(Source) - self.skip) |->
        create_row(self, Source[self.skip + j], Indent(self))]

WithoutMarker(line) == SelectSeq(line, LAMBDA piece : piece # "\\relax")

\* the row lines of a table: its body lines that are not the separator;
\* under a header with units, the line after the first is the units line
\* and is no row line, and the first is read without its marker
RowLines(table) ==
    LET body == SelectSeq(BodyLines(table), LAMBDA l : ~IsMidrule(l))
    IN IF ~self.no_header /\ Truthy(self.units) /\ Len(body) >= 2
       THEN <<WithoutMarker(body[1])>> \o SubSeq(body, 3, Len(body))
       ELSE body

(***************************************************************************)
(* C8: of a source of n rows with skip k, create_table formats the rows at *)
(* positions k..n-1 in source order, one row line each, whatever the       *)
(* header flag; with the header flag off no line is a \midrule line; with  *)
(* k >= n the result is empty.                                             *)
(***************************************************************************)
C8_SkippedRows ==
    Assembled =>
        IF self.skip >= Len(Source) THEN ret[1] = <<>>
        ELSE /\ RowLines(ret[1]) = WantedRows
             /\ Len(RowLines(ret[1])) = Len(Source) - self.skip
             /\ self.no_header =>
                   \A i \in 1..Len(LinesOf(ret[1])) : ~IsMidrule(LinesOf(ret[1])[i])

\* skip 1 on three rows without a header: two row lines, no \midrule
C8_Witness ==
    /\ Assembled
    /\ self.skip = 1 /\ self.no_header /\ Len(Source) = 3
    /\ Source[1] # Source[2] /\ Source[2] # Source[3]
    /\ Len(BodyLines(ret[1])) = 2
    /\ BodyLines(ret[1]) = <<create_row(self, Source[2], Indent(self)),
                             create_row(self, Source[3], Indent(self))>>

(***************************************************************************)
(* C10: with the header flag on and a row left after skipping, the body    *)
(* has exactly one \midrule line; without units it is the line after the   *)
(* first row; with units the body is the first row with the \relax marker, *)
(* the units row, the \midrule line, then the other rows in order.  With   *)
(* the header flag off the body is the rows alone: no units row, no        *)
(* marker.                                                                 *)
(***************************************************************************)
UnitsRow == Indent(self) \o Indent(self) \o get_units(self) \o <<" \\\\">>

C10_HeaderBlock ==
    (Assembled /\ self.skip < Len(Source)) =>
        LET body == BodyLines(ret[1])
            rule == Indent(self) \o Indent(self) \o <<"\\midrule">>
        IN IF self.no_header
           THEN /\ body = WantedRows
                /\ \A i \in 1..Len(body) : ~Has(body[i], "\\relax")
           ELSE /\ Cardinality({i \in 1..Len(body) : IsMidrule(body[i])}) = 1
                /\ IF Truthy(self.units)
                   THEN body = <<WantedRows[1] \o <<"\\relax">>, UnitsRow, rule>>
                               \o Tail(WantedRows)
                   ELSE body = <<WantedRows[1], rule>> \o Tail(WantedRows)

\* a header that is the only row left, with units
C10_Witness ==
    /\ Assembled
    /\ ~self.no_header /\ Truthy(self.units)
    /\ Len(Source) = self.skip + 1
    /\ Len(BodyLines(ret[1])) = 3
    /\ IsMidrule(BodyLines(ret[1])[3])
    /\ Has(BodyLines(ret[1])[1], "\\relax")

====
